---- MODULE Spec2Model ----
(***************************************************************************)
(* The remote connection manager of crates/recent_projects/src/            *)
(* remote_servers.rs (RemoteServerProjects): the modal's mode, the         *)
(* connection attempt it owns, the retained sessions, and the registry of  *)
(* servers it updates through settings-file update requests.               *)
(*                                                                         *)
(* Conventions.  Option<T> is a tuple: None is << >>, Some(x) is <<x>>.    *)
(* Vec indices are the source's 0-based indices; At(v, i) reads v[i].      *)
(* A piece of text typed into the address editor is a sequence of lexical  *)
(* tokens (" " is whitespace), e.g. <<"ssh", "u@b", "-p", "22">>.          *)
(***************************************************************************)
EXTENDS Integers, Sequences, FiniteSets, TLC

VARIABLES
    settings,              \* SshSettings.ssh_connections: Option<Vec<SshConnection>>
    pending,               \* settings-file update requests not applied yet (FIFO)
    mode,                  \* RemoteServerProjects.mode
    tasks,                 \* the live `creating` tasks (connection attempts)
    retained_connections,  \* RemoteServerProjects.retained_connections
    confirmations,         \* pending "Remove server?" prompts (detached tasks)
    workspace_alive,       \* whether RemoteServerProjects.workspace still upgrades
    connecting,            \* the connection task of "open folder" (detached, on the workspace)
    opening,               \* detached tasks that open the paths of a project in a window
    Editor,                \* the Editor that deploy_context_menu works on
    panicked,              \* the process hit a panic
    dismissed,             \* the modal is off screen (DismissEvent, or its workspace is gone)
    last                   \* history: what the last step did, "" when it is not recorded

\* what lives outside the modal: the detached tasks and the editor
background == <<connecting, opening, Editor>>

vars == <<settings, pending, mode, tasks, retained_connections, confirmations,
          workspace_alive, background, panicked, dismissed, last>>

----------------------------------------------------------------------------
(* Bounds of the model *)

\* sessions one modal may retain (connection attempts that may succeed)
MaxSessions == 1
\* settings-file update requests that may be queued at once
MaxPending == 1
\* servers the registry may hold when its transforms are applied on their own
MaxServers == 2

\* settings-file update requests that may be queued at once in the project flows
MaxQueued == 2
\* windows whose paths may be opening at once
MaxOpening == 1
\* the last display point of the editor's buffer
MaxPoint == 3

\* "Remove server?" prompts that may be open at once
MaxConfirmations == 1

----------------------------------------------------------------------------
(* Option and Vec helpers *)

None == << >>
Some(x) == <<x>>
At(v, i) == v[i + 1]
Indices(v) == 0..(Len(v) - 1)

\* Vec::get_mut(index).map(f): the element replaced when the index is in range
SetAt(v, i, x) == [v EXCEPT ![i + 1] = x]

\* Vec::remove(index) for an index in range: the later elements shift left
VecRemove(v, i) == SubSeq(v, 1, i) \o SubSeq(v, i + 2, Len(v))

----------------------------------------------------------------------------
(* Text of the address editor and the command line parser *)

Whitespace == " "

\* the texts a user types into the address editor
Inputs ==
    { << >>,
      <<Whitespace>>,
      <<Whitespace, "ssh", "u@b", "-p", "22", "-X", Whitespace>>,
      <<"ssh", "-E", "a">> }

\* the texts a user types into the nickname editor
Nicknames == {"", "n"}

RECURSIVE TrimStart(_)
TrimStart(s) ==
    IF s # << >> /\ Head(s) = Whitespace THEN TrimStart(Tail(s)) ELSE s

RECURSIVE TrimEnd(_)
TrimEnd(s) ==
    IF s # << >> /\ s[Len(s)] = Whitespace THEN TrimEnd(SubSeq(s, 1, Len(s) - 1)) ELSE s

\* get_text: the editor's text, trimmed
get_text(editor) == TrimEnd(TrimStart(editor.text))

HostTokens == {"a", "u@b"}
AllowedOpts == {"-X"}
HostOf(tok) == IF tok = "u@b" THEN "b" ELSE tok
UsernameOf(tok) == IF tok = "u@b" THEN Some("u") ELSE None
PortOf(tok) == IF tok = "22" THEN Some(22) ELSE None

NoOptions == [host |-> None, username |-> None, port |-> None, args |-> << >>]
ParseErr(msg) == [ok |-> FALSE, error |-> msg, options |-> None]

\* the loop over the tokens of `ssh [user@]host [-p port] [args...]`
RECURSIVE ParseTokens(_, _)
ParseTokens(toks, acc) ==
    IF toks = << >>
    THEN IF acc.host = None
         THEN ParseErr("missing hostname")
         ELSE [ok |-> TRUE, error |-> "",
               options |-> Some([host |-> acc.host[1], username |-> acc.username,
                                 port |-> acc.port, args |-> Some(acc.args)])]
    ELSE LET tok == Head(toks) IN
         CASE tok = Whitespace -> ParseTokens(Tail(toks), acc)
           [] tok \in AllowedOpts ->
                ParseTokens(Tail(toks), [acc EXCEPT !.args = Append(@, tok)])
           [] tok = "-p" ->
                IF Len(toks) >= 2 /\ PortOf(toks[2]) # None
                THEN ParseTokens(SubSeq(toks, 3, Len(toks)),
                                 [acc EXCEPT !.port = PortOf(toks[2])])
                ELSE ParseErr("invalid port")
           [] tok \in HostTokens /\ acc.host = None ->
                ParseTokens(Tail(toks),
                            [acc EXCEPT !.host = Some(HostOf(tok)),
                                        !.username = UsernameOf(tok)])
           [] OTHER -> ParseErr("unsupported argument")

\* SshConnectionOptions::parse_command_line: a leading "ssh" is dropped
parse_command_line(input) ==
    ParseTokens(IF input # << >> /\ Head(input) = "ssh" THEN Tail(input) ELSE input,
                NoOptions)

----------------------------------------------------------------------------
(* The registry: transforms handed to update_settings_file *)

\* SshSettings::ssh_connections(): the configured servers, none when unset
ssh_connections(setting) == IF setting = None THEN << >> ELSE setting[1]

\* the record add_ssh_server pushes
SshConnection(connection_options) ==
    [host |-> connection_options.host,
     username |-> connection_options.username,
     port |-> connection_options.port,
     projects |-> {},
     nickname |-> None,
     args |-> IF connection_options.args = None THEN << >> ELSE connection_options.args[1],
     upload_binary_over_ssh |-> None]

Unchanged(setting) == [panic |-> FALSE, setting |-> setting]
Panic(setting) == [panic |-> TRUE, setting |-> setting]

\* an add_server that skips options a configured server already has
add_ssh_server_update_Dedups(setting, connection_options) ==
    IF \E i \in Indices(ssh_connections(setting)) :
            At(ssh_connections(setting), i) = SshConnection(connection_options)
    THEN Unchanged(setting)
    ELSE Unchanged(Some(Append(ssh_connections(setting),
                               SshConnection(connection_options))))

\* add_ssh_server's closure: get_or_insert(Default::default()).push(..)
add_ssh_server_update(setting, connection_options) ==
    Unchanged(Some(Append(ssh_connections(setting), SshConnection(connection_options))))

\* a removal that creates the server list when there is none, as
\* get_or_insert would
delete_ssh_server_update_Creates(setting, server) ==
    IF server < Len(ssh_connections(setting))
    THEN Unchanged(Some(VecRemove(ssh_connections(setting), server)))
    ELSE IF setting = None THEN Unchanged(Some(<< >>)) ELSE Panic(setting)

\* delete_ssh_server's closure: connections.remove(server); Vec::remove panics
\* when the index is out of bounds
delete_ssh_server_update(setting, server) ==
    IF setting = None THEN Unchanged(setting)
    ELSE IF server < Len(setting[1])
         THEN Unchanged(Some(VecRemove(setting[1], server)))
         ELSE Panic(setting)

\* a closure that writes the nickname on every configured server
set_nickname_update_AllServers(setting, index, text) ==
    IF setting # None /\ index < Len(setting[1])
    THEN Unchanged(Some([j \in 1..Len(setting[1]) |->
                            [setting[1][j] EXCEPT !.nickname = text]]))
    ELSE Unchanged(setting)

\* the closure of confirm in EditNickname: connections.get_mut(index).nickname = text
set_nickname_update(setting, index, text) ==
    IF setting # None /\ index < Len(setting[1])
    THEN Unchanged(Some(SetAt(setting[1], index,
                              [At(setting[1], index) EXCEPT !.nickname = text])))
    ELSE Unchanged(setting)

\* the directories a user may select in the project picker
Paths == {"/x", "/y"}

\* SshProject { paths }: a saved project, identified by its paths
SshProject(paths) == [paths |-> paths]

\* the selections of the project picker, as saved projects
Projects == {SshProject(paths) : paths \in SUBSET Paths}

\* an insert that takes an equal record out again instead of keeping it
add_project_update_Toggles(setting, ix, paths) ==
    IF setting # None /\ ix < Len(setting[1])
    THEN LET projects == At(setting[1], ix).projects
             toggled == IF SshProject(paths) \in projects
                        THEN projects \ {SshProject(paths)}
                        ELSE projects \cup {SshProject(paths)}
         IN Unchanged(Some(SetAt(setting[1], ix,
                                 [At(setting[1], ix) EXCEPT !.projects = toggled])))
    ELSE Unchanged(setting)

\* the closure of ProjectPicker::new: connections.get_mut(ix), then
\* server.projects.insert(SshProject { paths }) into the BTreeSet
add_project_update(setting, ix, paths) ==
    IF setting # None /\ ix < Len(setting[1])
    THEN Unchanged(Some(SetAt(setting[1], ix,
                              [At(setting[1], ix) EXCEPT
                                  !.projects = @ \cup {SshProject(paths)}])))
    ELSE Unchanged(setting)

\* a removal that indexes the Vec (connections[server]) and so panics when the
\* index is out of bounds
delete_ssh_project_update_Indexes(setting, server, project) ==
    IF setting = None THEN Unchanged(setting)
    ELSE IF server < Len(setting[1])
         THEN Unchanged(Some(SetAt(setting[1], server,
                                   [At(setting[1], server) EXCEPT
                                       !.projects = @ \ {project}])))
         ELSE Panic(setting)

\* a removal that empties the project set of the server
delete_ssh_project_update_Clears(setting, server, project) ==
    IF setting # None /\ server < Len(setting[1])
    THEN Unchanged(Some(SetAt(setting[1], server,
                              [At(setting[1], server) EXCEPT !.projects = {}])))
    ELSE Unchanged(setting)

\* delete_ssh_project's closure: connections.get_mut(server), then
\* server.projects.remove(&project)
delete_ssh_project_update(setting, server, project) ==
    IF setting # None /\ server < Len(setting[1])
    THEN Unchanged(Some(SetAt(setting[1], server,
                              [At(setting[1], server) EXCEPT
                                  !.projects = @ \ {project}])))
    ELSE Unchanged(setting)

\* a queued request applied to the registry
ApplyRequest(setting, request) ==
    CASE request.op = "add_server" -> add_ssh_server_update(setting, request.options)
      [] request.op = "remove_server" -> delete_ssh_server_update(setting, request.server)
      [] request.op = "set_nickname" ->
            set_nickname_update(setting, request.index, request.text)
      [] request.op = "add_project" ->
            add_project_update(setting, request.ix, request.paths)
      [] request.op = "remove_project" ->
            delete_ssh_project_update(setting, request.server, request.project)

\* a store that takes the newest request first
update_settings_file_Prepends(request) ==
    IF workspace_alive THEN <<request>> \o pending ELSE pending

\* RemoteServerProjects::update_settings_file: the request is handed to the
\* settings store unless the workspace is gone
update_settings_file(request) ==
    IF workspace_alive THEN Append(pending, request) ELSE pending

----------------------------------------------------------------------------
(* Mode values *)

\* Mode::default_mode / DefaultState::new: a snapshot of the configured servers
default_mode == [tag |-> "Default", servers |-> ssh_connections(settings)]

\* CreateRemoteServer::new: a fresh, empty, writable address editor
CreateRemoteServerNew ==
    [tag |-> "CreateRemoteServer",
     address_editor |-> [text |-> << >>, read_only |-> FALSE],
     address_error |-> None,
     ssh_prompt |-> None,
     creating |-> None]

\* EditNicknameState::new: the editor starts with the server's non-empty nickname
EditNicknameStateNew(index) ==
    LET connections == ssh_connections(settings)
        nickname == IF index < Len(connections) THEN At(connections, index).nickname
                    ELSE None
    IN [tag |-> "EditNickname",
        index |-> index,
        editor |-> [text |-> IF nickname # None /\ nickname[1] # "" THEN nickname[1]
                             ELSE ""]]

\* the mode of a modal that no longer exists
Dropped == [tag |-> "Dropped"]

\* the tasks a mode value owns: CreateRemoteServer._creating
OwnedTasks(m) ==
    IF m.tag = "CreateRemoteServer" /\ m.creating # None THEN {m.creating[1]} ELSE {}

\* tasks that run on after their mode value is gone, as detached tasks would
TasksAfterAssign_Detached(new_mode) == tasks

\* assigning self.mode drops the old value, and a dropped Task is cancelled
TasksAfterAssign(new_mode) ==
    {t \in tasks : t.id \notin (OwnedTasks(mode) \ OwnedTasks(new_mode))}

\* a handle no live task has
FreshTaskId ==
    CHOOSE id \in 1..(Cardinality(tasks) + 1) : \A t \in tasks : t.id # id

\* the modal is on screen and the process runs
Open == ~panicked /\ ~dismissed

\* the modal exists: it is on screen, or a confirmation task still holds it
\* (remove_ssh_server is given cx.view().clone())
Held == ~dismissed \/ confirmations # << >>

----------------------------------------------------------------------------
(* User input in the editors *)

\* typing in the address editor; a read-only editor takes no input
TypeAddress(text) ==
    /\ last' = ""
    /\ Open
    /\ mode.tag = "CreateRemoteServer"
    /\ ~mode.address_editor.read_only
    /\ mode.address_editor.text # text
    /\ mode' = [mode EXCEPT !.address_editor.text = text]
    /\ UNCHANGED <<settings, pending, tasks, retained_connections, confirmations,
                   workspace_alive, background, panicked, dismissed>>

\* typing in the nickname editor
TypeNickname(text) ==
    /\ last' = ""
    /\ Open
    /\ mode.tag = "EditNickname"
    /\ mode.editor.text # text
    /\ mode' = [mode EXCEPT !.editor.text = text]
    /\ UNCHANGED <<settings, pending, tasks, retained_connections, confirmations,
                   workspace_alive, background, panicked, dismissed>>

----------------------------------------------------------------------------
(* Default mode: "Connect New Server" and "View Server Options" *)

\* a "Connect New Server" that opens the form with a message already shown
StartCreate_WithError ==
    LET new_mode == [CreateRemoteServerNew EXCEPT !.address_error = Some("could not parse")]
    IN /\ last' = ""
       /\ Open
       /\ mode.tag = "Default"
       /\ mode' = new_mode
       /\ tasks' = TasksAfterAssign(new_mode)
       /\ UNCHANGED <<settings, pending, retained_connections, confirmations,
                      workspace_alive, background, panicked, dismissed>>

\* render_default's on_click / Confirm listener of the connect button
StartCreate ==
    /\ last' = ""
    /\ Open
    /\ mode.tag = "Default"
    /\ mode' = CreateRemoteServerNew
    /\ tasks' = TasksAfterAssign(CreateRemoteServerNew)
    /\ UNCHANGED <<settings, pending, retained_connections, confirmations,
                   workspace_alive, background, panicked, dismissed>>

\* view_server_options, called with the index and record of the rendered listing
view_server_options(server_index) ==
    /\ last' = ""
    /\ LET new_mode == [tag |-> "ViewServerOptions",
                        server_index |-> server_index,
                        connection |-> At(mode.servers, server_index)]
       IN /\ mode' = new_mode
          /\ tasks' = TasksAfterAssign(new_mode)
    /\ UNCHANGED <<settings, pending, retained_connections, confirmations,
                   workspace_alive, background, panicked, dismissed>>

\* "View Server Options" of one of the servers the Default mode lists
ViewServerOptions ==
    /\ Open
    /\ mode.tag = "Default"
    /\ \E ix \in Indices(mode.servers) : view_server_options(ix)

----------------------------------------------------------------------------
(* create_ssh_server and the task it spawns *)

\* a create_ssh_server that leaves the error of the previous confirm in the mode
CreateSshServerStart_KeepsError(editor, parsed) ==
    LET id == FreshTaskId
        new_mode == [tag |-> "CreateRemoteServer",
                     address_editor |-> [editor EXCEPT !.read_only = TRUE],
                     address_error |-> mode.address_error,
                     ssh_prompt |-> Some(id),
                     creating |-> Some(id)]
    IN /\ Len(retained_connections) < MaxSessions
       /\ last' = "attempt_started"
       /\ mode' = new_mode
       /\ tasks' = TasksAfterAssign(new_mode) \cup
                   {[id |-> id, phase |-> "connecting",
                     connection_options |-> parsed.options[1],
                     address_editor |-> [editor EXCEPT !.read_only = TRUE]]}

\* the state written at the end of create_ssh_server when the input parses: the
\* task is spawned, the editor made read-only, the mode holds prompt and task
CreateSshServerStart(editor, parsed) ==
    LET id == FreshTaskId
        new_mode == [tag |-> "CreateRemoteServer",
                     address_editor |-> [editor EXCEPT !.read_only = TRUE],
                     address_error |-> None,
                     ssh_prompt |-> Some(id),
                     creating |-> Some(id)]
    IN /\ Len(retained_connections) < MaxSessions
       /\ last' = "attempt_started"
       /\ mode' = new_mode
       /\ tasks' = TasksAfterAssign(new_mode) \cup
                   {[id |-> id, phase |-> "connecting",
                     connection_options |-> parsed.options[1],
                     address_editor |-> [editor EXCEPT !.read_only = TRUE]]}

\* an Err arm that shows the error on a fresh editor
CreateSshServerParseError_ClearsText(editor) ==
    LET new_mode == [CreateRemoteServerNew EXCEPT
                        !.address_error = Some("could not parse")]
    IN /\ last' = "parse_error"
       /\ mode' = new_mode
       /\ tasks' = TasksAfterAssign(new_mode)

\* the Err arm of parse_command_line in create_ssh_server
CreateSshServerParseError(editor) ==
    LET new_mode == [tag |-> "CreateRemoteServer",
                     address_editor |-> editor,
                     address_error |-> Some("could not parse"),
                     ssh_prompt |-> None,
                     creating |-> None]
    IN /\ last' = "parse_error"
       /\ mode' = new_mode
       /\ tasks' = TasksAfterAssign(new_mode)

\* a create_ssh_server that, on an empty input, takes the shown error away
create_ssh_server_EmptyClearsError(editor) ==
    LET input == get_text(editor)
        parsed == parse_command_line(input)
    IN IF input = << >>
       THEN /\ last' = "confirm_empty"
            /\ mode' = [mode EXCEPT !.address_error = None]
            /\ UNCHANGED tasks
       ELSE IF ~parsed.ok
            THEN CreateSshServerParseError(editor)
            ELSE CreateSshServerStart(editor, parsed)

\* create_ssh_server(editor)
create_ssh_server(editor) ==
    LET input == get_text(editor)
        parsed == parse_command_line(input)
    IN IF input = << >>
       THEN last' = "confirm_empty" /\ UNCHANGED <<mode, tasks>>
       ELSE IF ~parsed.ok
            THEN CreateSshServerParseError(editor)
            ELSE CreateSshServerStart(editor, parsed)

\* connect_over_ssh relays an interactive prompt to ssh_prompt and suspends
AttemptAsksPrompt(t) ==
    /\ last' = ""
    /\ ~panicked
    /\ t.phase = "connecting"
    /\ tasks' = (tasks \ {t}) \cup {[t EXCEPT !.phase = "prompt"]}
    /\ UNCHANGED <<settings, pending, mode, retained_connections, confirmations,
                   workspace_alive, background, panicked, dismissed>>

\* a success arm that adds the server without retaining the session
CreateSshServerConnected_NotRetained(t) ==
    /\ last' = "attempt_connected"
    /\ ~panicked
    /\ t.phase = "connecting"
    /\ Len(pending) < MaxPending
    /\ pending' = update_settings_file(
                      [op |-> "add_server", options |-> t.connection_options])
    /\ mode' = default_mode
    /\ tasks' = TasksAfterAssign(default_mode) \ {t}
    /\ UNCHANGED <<settings, retained_connections, confirmations, workspace_alive, background,
                   panicked, dismissed>>

\* the Some(Some(client)) arm of the creating task
CreateSshServerConnected(t) ==
    /\ last' = "attempt_connected"
    /\ ~panicked
    /\ t.phase = "connecting"
    /\ Len(pending) < MaxPending
    /\ retained_connections' = Append(retained_connections, t.connection_options.host)
    /\ pending' = update_settings_file(
                      [op |-> "add_server", options |-> t.connection_options])
    /\ mode' = default_mode
    /\ tasks' = TasksAfterAssign(default_mode) \ {t}
    /\ UNCHANGED <<settings, confirmations, workspace_alive, background, panicked, dismissed>>

\* a failure arm that builds the mode with CreateRemoteServer::new, losing the text
CreateSshServerFailed_FreshEditor(t) ==
    /\ mode' = CreateRemoteServerNew
    /\ tasks' = TasksAfterAssign(CreateRemoteServerNew) \ {t}
    /\ UNCHANGED <<settings, pending, retained_connections, confirmations,
                   workspace_alive, background, panicked, dismissed>>

\* a failure arm that stores the failure in address_error
CreateSshServerFailed_SetsError(t) ==
    LET new_mode == [tag |-> "CreateRemoteServer",
                     address_editor |-> [t.address_editor EXCEPT !.read_only = FALSE],
                     address_error |-> Some("Failed to connect"),
                     ssh_prompt |-> None,
                     creating |-> None]
    IN /\ mode' = new_mode
       /\ tasks' = TasksAfterAssign(new_mode) \ {t}
       /\ UNCHANGED <<settings, pending, retained_connections, confirmations,
                      workspace_alive, background, panicked, dismissed>>

\* a failure arm without set_read_only(false)
CreateSshServerFailed_StaysReadOnly(t) ==
    LET new_mode == [tag |-> "CreateRemoteServer",
                     address_editor |-> t.address_editor,
                     address_error |-> None,
                     ssh_prompt |-> None,
                     creating |-> None]
    IN /\ mode' = new_mode
       /\ tasks' = TasksAfterAssign(new_mode) \ {t}
       /\ UNCHANGED <<settings, pending, retained_connections, confirmations,
                      workspace_alive, background, panicked, dismissed>>

\* a failure arm that connects again with the same options
CreateSshServerFailed_Retries(t) ==
    LET id == FreshTaskId
        new_mode == [tag |-> "CreateRemoteServer",
                     address_editor |-> t.address_editor,
                     address_error |-> None,
                     ssh_prompt |-> Some(id),
                     creating |-> Some(id)]
    IN /\ mode' = new_mode
       /\ tasks' = (tasks \ {t}) \cup
                   {[id |-> id, phase |-> "connecting",
                     connection_options |-> t.connection_options,
                     address_editor |-> t.address_editor]}
       /\ UNCHANGED <<settings, pending, retained_connections, confirmations,
                      workspace_alive, background, panicked, dismissed>>

\* the `_` arm of the creating task: the editor is made writable and the mode is
\* a CreateRemoteServer without error, prompt or task
CreateSshServerFailed(t) ==
    LET new_mode == [tag |-> "CreateRemoteServer",
                     address_editor |-> [t.address_editor EXCEPT !.read_only = FALSE],
                     address_error |-> None,
                     ssh_prompt |-> None,
                     creating |-> None]
    IN /\ mode' = new_mode
       /\ tasks' = TasksAfterAssign(new_mode) \ {t}
       /\ UNCHANGED <<settings, pending, retained_connections, confirmations,
                      workspace_alive, background, panicked, dismissed>>

\* the connection resolves to Some(None): connecting was cancelled from the prompt
AttemptCancelled(t) ==
    /\ last' = "attempt_cancelled"
    /\ ~panicked
    /\ t.phase \in {"connecting", "prompt"}
    /\ CreateSshServerFailed(t)

\* the connection fails: prompt_err shows "Failed to connect" and waits for the
\* user to close it
AttemptErrored(t) ==
    /\ last' = ""
    /\ ~panicked
    /\ t.phase \in {"connecting", "prompt"}
    /\ tasks' = (tasks \ {t}) \cup {[t EXCEPT !.phase = "failed_to_connect"]}
    /\ UNCHANGED <<settings, pending, mode, retained_connections, confirmations,
                   workspace_alive, background, panicked, dismissed>>

\* a closed "Failed to connect" prompt after which the task goes on waiting
ErrorPromptClosed_TaskWaits(t) ==
    /\ last' = "attempt_failed"
    /\ ~panicked
    /\ t.phase = "failed_to_connect"
    /\ UNCHANGED <<settings, pending, mode, tasks, retained_connections, confirmations,
                   workspace_alive, background, panicked, dismissed>>

\* the "Failed to connect" prompt is closed: the connection resolves to None
ErrorPromptClosed(t) ==
    /\ last' = "attempt_failed"
    /\ ~panicked
    /\ t.phase = "failed_to_connect"
    /\ CreateSshServerFailed(t)

----------------------------------------------------------------------------
(* confirm and cancel, the modal's actions *)

\* confirm in Default and ViewServerOptions: nothing
ConfirmIgnored ==
    /\ last' = ""
    /\ mode.tag \in {"Default", "ViewServerOptions"}
    /\ UNCHANGED <<settings, pending, mode, tasks, retained_connections>>

\* a confirm in ProjectPicker that goes back to the listing
ConfirmPickerIgnored_ToDefault ==
    /\ last' = "confirm_ignored"
    /\ mode.tag = "ProjectPicker"
    /\ mode' = default_mode
    /\ tasks' = TasksAfterAssign(default_mode)
    /\ UNCHANGED <<settings, pending, retained_connections>>

\* confirm in ProjectPicker: nothing (the picker handles its own confirm)
ConfirmPickerIgnored ==
    /\ last' = "confirm_ignored"
    /\ mode.tag = "ProjectPicker"
    /\ UNCHANGED <<settings, pending, mode, tasks, retained_connections>>

\* SshPrompt::confirm: the outstanding prompt of the attempt, if any, is answered
prompt_confirm(id) ==
    {IF t.id = id /\ t.phase = "prompt" THEN [t EXCEPT !.phase = "connecting"] ELSE t :
        t \in tasks}

\* confirm in CreateRemoteServer with an ssh_prompt: forwarded to the prompt
ConfirmPrompt ==
    /\ last' = ""
    /\ mode.tag = "CreateRemoteServer"
    /\ mode.ssh_prompt # None
    /\ tasks' = prompt_confirm(mode.ssh_prompt[1])
    /\ UNCHANGED <<settings, pending, mode, retained_connections>>

\* a confirm that calls create_ssh_server without looking at ssh_prompt
ConfirmCreate_WhileInFlight ==
    /\ mode.tag = "CreateRemoteServer"
    /\ create_ssh_server(mode.address_editor)
    /\ UNCHANGED <<settings, pending, retained_connections>>

\* confirm in CreateRemoteServer without an ssh_prompt: create_ssh_server
ConfirmCreate ==
    /\ mode.tag = "CreateRemoteServer"
    /\ mode.ssh_prompt = None
    /\ create_ssh_server(mode.address_editor)
    /\ UNCHANGED <<settings, pending, retained_connections>>

\* a confirm in EditNickname that stores the text as it is, empty or not
ConfirmEditNickname_KeepsEmpty ==
    /\ last' = "nickname_confirmed"
    /\ mode.tag = "EditNickname"
    /\ Len(pending) < MaxPending
    /\ pending' = update_settings_file(
                      [op |-> "set_nickname", index |-> mode.index,
                       text |-> Some(mode.editor.text)])
    /\ mode' = default_mode
    /\ tasks' = TasksAfterAssign(default_mode)
    /\ UNCHANGED <<settings, retained_connections>>

\* confirm in EditNickname: the nickname is written (an empty text as None) and
\* the mode is Default
ConfirmEditNickname ==
    /\ last' = "nickname_confirmed"
    /\ mode.tag = "EditNickname"
    /\ Len(pending) < MaxPending
    /\ LET text == IF mode.editor.text # "" THEN Some(mode.editor.text) ELSE None
       IN pending' = update_settings_file(
                         [op |-> "set_nickname", index |-> mode.index, text |-> text])
    /\ mode' = default_mode
    /\ tasks' = TasksAfterAssign(default_mode)
    /\ UNCHANGED <<settings, retained_connections>>

\* RemoteServerProjects::confirm
confirm ==
    /\ Open
    /\ \/ ConfirmIgnored
       \/ ConfirmPickerIgnored
       \/ ConfirmPrompt
       \/ ConfirmCreate
       \/ ConfirmEditNickname
    /\ UNCHANGED <<confirmations, workspace_alive, background, panicked, dismissed>>

\* cancel in Default: DismissEvent; the modal leaves the screen and, held by
\* nothing else, is dropped with its fields
CancelDismiss ==
    /\ last' = ""
    /\ mode.tag = "Default"
    /\ dismissed' = TRUE
    /\ IF confirmations = << >>
       THEN mode' = Dropped /\ tasks' = {} /\ retained_connections' = << >>
       ELSE UNCHANGED <<mode, tasks, retained_connections>>

\* a cancel of the attempt that leaves the new editor empty
CancelAttempt_DropsText ==
    /\ last' = "cancel_attempt"
    /\ mode.tag = "CreateRemoteServer"
    /\ mode.ssh_prompt # None
    /\ mode' = CreateRemoteServerNew
    /\ tasks' = TasksAfterAssign(CreateRemoteServerNew)
    /\ UNCHANGED <<dismissed, retained_connections>>

\* cancel in CreateRemoteServer with an ssh_prompt: a new CreateRemoteServer whose
\* editor gets the old editor's text
CancelAttempt ==
    /\ last' = "cancel_attempt"
    /\ mode.tag = "CreateRemoteServer"
    /\ mode.ssh_prompt # None
    /\ LET new_state == [CreateRemoteServerNew EXCEPT
                            !.address_editor.text = mode.address_editor.text]
       IN /\ mode' = new_state
          /\ tasks' = TasksAfterAssign(new_state)
    /\ UNCHANGED <<dismissed, retained_connections>>

\* a cancel to Default that also lets go of the retained sessions
CancelToDefault_DropsSessions ==
    /\ last' = "cancel_to_default"
    /\ \/ mode.tag \in {"ViewServerOptions", "EditNickname"}
       \/ mode.tag = "CreateRemoteServer" /\ mode.ssh_prompt = None
    /\ mode' = default_mode
    /\ tasks' = TasksAfterAssign(default_mode)
    /\ retained_connections' = << >>
    /\ UNCHANGED dismissed

\* a cancel that, on a shown parse error, only clears the input
CancelToDefault_ClearsError ==
    LET new_mode == IF mode.tag = "CreateRemoteServer" /\ mode.address_error # None
                    THEN CreateRemoteServerNew ELSE default_mode
    IN /\ last' = "cancel_to_default"
       /\ \/ mode.tag \in {"ViewServerOptions", "EditNickname"}
          \/ mode.tag = "CreateRemoteServer" /\ mode.ssh_prompt = None
       /\ mode' = new_mode
       /\ tasks' = TasksAfterAssign(new_mode)
       /\ UNCHANGED <<dismissed, retained_connections>>

\* cancel otherwise: Default
CancelToDefault ==
    /\ last' = "cancel_to_default"
    /\ \/ mode.tag \in {"ViewServerOptions", "EditNickname", "ProjectPicker"}
       \/ mode.tag = "CreateRemoteServer" /\ mode.ssh_prompt = None
    /\ mode' = default_mode
    /\ tasks' = TasksAfterAssign(default_mode)
    /\ UNCHANGED <<dismissed, retained_connections>>

\* RemoteServerProjects::cancel
cancel ==
    /\ Open
    /\ \/ CancelDismiss
       \/ CancelAttempt
       \/ CancelToDefault
    /\ UNCHANGED <<settings, pending, confirmations, workspace_alive, background, panicked>>

----------------------------------------------------------------------------
(* ViewServerOptions: edit nickname, remove server, go back *)

\* "Add/Edit Nickname": EditNickname for the server index of the view
EditNickname ==
    /\ last' = ""
    /\ Open
    /\ mode.tag = "ViewServerOptions"
    /\ LET new_mode == EditNicknameStateNew(mode.server_index)
       IN /\ mode' = new_mode
          /\ tasks' = TasksAfterAssign(new_mode)
    /\ UNCHANGED <<settings, pending, retained_connections, confirmations,
                   workspace_alive, background, panicked, dismissed>>

\* "Go Back"
GoBack ==
    /\ last' = ""
    /\ Open
    /\ mode.tag = "ViewServerOptions"
    /\ mode' = default_mode
    /\ tasks' = TasksAfterAssign(default_mode)
    /\ UNCHANGED <<settings, pending, retained_connections, confirmations,
                   workspace_alive, background, panicked, dismissed>>

\* "Remove Server": remove_ssh_server opens the prompt and spawns a detached task
\* holding the modal and the view's server index
remove_ssh_server ==
    /\ last' = ""
    /\ Open
    /\ mode.tag = "ViewServerOptions"
    /\ Len(confirmations) < MaxConfirmations
    /\ confirmations' = Append(confirmations, [index |-> mode.server_index])
    /\ UNCHANGED <<settings, pending, mode, tasks, retained_connections,
                   workspace_alive, background, panicked, dismissed>>

\* the pending confirmations without the c-th
WithoutConfirmation(c) ==
    SubSeq(confirmations, 1, c - 1) \o SubSeq(confirmations, c + 1, Len(confirmations))

\* the prompt answered "Yes, remove it": delete_ssh_server(index), then Default;
\* the task ends, and a modal that is off screen and held by no other task is
\* dropped with its fields
ConfirmationAccepted(c) ==
    /\ last' = "removal_accepted"
    /\ ~panicked
    /\ c \in 1..Len(confirmations)
    /\ Len(pending) < MaxPending
    /\ confirmations' = WithoutConfirmation(c)
    /\ pending' = update_settings_file(
                      [op |-> "remove_server", server |-> confirmations[c].index])
    /\ IF dismissed /\ WithoutConfirmation(c) = << >>
       THEN mode' = Dropped /\ tasks' = {} /\ retained_connections' = << >>
       ELSE /\ mode' = default_mode
            /\ tasks' = TasksAfterAssign(default_mode)
            /\ UNCHANGED retained_connections
    /\ UNCHANGED <<settings, workspace_alive, background, panicked, dismissed>>

\* a declined prompt that goes back to the listing as an accepted one does
ConfirmationDeclined_ToDefault(c) ==
    /\ last' = ""
    /\ ~panicked
    /\ c \in 1..Len(confirmations)
    /\ confirmations' = WithoutConfirmation(c)
    /\ IF dismissed /\ WithoutConfirmation(c) = << >>
       THEN mode' = Dropped /\ tasks' = {} /\ retained_connections' = << >>
       ELSE /\ mode' = default_mode
            /\ tasks' = TasksAfterAssign(default_mode)
            /\ UNCHANGED retained_connections
    /\ UNCHANGED <<settings, pending, workspace_alive, background, panicked, dismissed>>

\* the prompt answered "No, keep it" or closed: the task ends
ConfirmationDeclined(c) ==
    /\ last' = ""
    /\ ~panicked
    /\ c \in 1..Len(confirmations)
    /\ confirmations' = WithoutConfirmation(c)
    /\ IF dismissed /\ WithoutConfirmation(c) = << >>
       THEN mode' = Dropped /\ tasks' = {} /\ retained_connections' = << >>
       ELSE UNCHANGED <<mode, tasks, retained_connections>>
    /\ UNCHANGED <<settings, pending, workspace_alive, background, panicked, dismissed>>

----------------------------------------------------------------------------
(* render *)

\* render_default: a cached listing that differs from the configured servers
\* is rebuilt; nothing is compared when no server list is configured
render_default(state) ==
    IF settings # None /\ state.servers # settings[1] THEN default_mode ELSE state

\* the mode after Render::render: render_view_options, render_edit_nickname and
\* render_create_remote_server draw the mode as it is
Rendered ==
    IF mode.tag = "Default" THEN render_default(mode) ELSE mode

\* Render for RemoteServerProjects
render ==
    /\ last' = ""
    /\ Open
    /\ mode' = Rendered
    /\ UNCHANGED <<settings, pending, tasks, retained_connections, confirmations,
                   workspace_alive, background, panicked, dismissed>>

\* an outside click that dismisses the modal whatever its mode
mouse_down_out_AnyMode ==
    /\ Open
    /\ last' = "outside_dismiss"
    /\ dismissed' = TRUE
    /\ IF confirmations = << >>
       THEN mode' = Dropped /\ tasks' = {} /\ retained_connections' = << >>
       ELSE UNCHANGED <<mode, tasks, retained_connections>>
    /\ UNCHANGED <<settings, pending, confirmations, workspace_alive, background, panicked>>

\* on_mouse_down_out: a click outside the modal emits DismissEvent in Default
\* and does nothing in any other mode
mouse_down_out ==
    /\ Open
    /\ IF mode.tag = "Default"
       THEN /\ last' = "outside_dismiss"
            /\ dismissed' = TRUE
            /\ IF confirmations = << >>
               THEN mode' = Dropped /\ tasks' = {} /\ retained_connections' = << >>
               ELSE UNCHANGED <<mode, tasks, retained_connections>>
       ELSE UNCHANGED <<last, dismissed, mode, tasks, retained_connections>>
    /\ UNCHANGED <<settings, pending, confirmations, workspace_alive, background, panicked>>

----------------------------------------------------------------------------
(* Open folder, the project picker and the saved projects *)

\* From<SshConnection> for SshConnectionOptions
ConnectionOptionsOf(ssh_connection) ==
    [host |-> ssh_connection.host,
     username |-> ssh_connection.username,
     port |-> ssh_connection.port,
     args |-> Some(ssh_connection.args),
     nickname |-> ssh_connection.nickname]

\* DismissEvent, or another modal toggled in its place: the modal leaves the
\* screen and, held by nothing else, is dropped with its fields
ModalDismissed ==
    /\ dismissed' = TRUE
    /\ IF confirmations = << >>
       THEN mode' = Dropped /\ tasks' = {} /\ retained_connections' = << >>
       ELSE UNCHANGED <<mode, tasks, retained_connections>>

\* Workspace::toggle_modal with a new RemoteServerProjects: the instance built
\* by RemoteServerProjects::new is on screen, in the mode it was given
ModalShown(new_mode) ==
    /\ dismissed' = FALSE
    /\ mode' = new_mode
    /\ tasks' = {}
    /\ retained_connections' = << >>

\* RemoteServerProjects::open: the modal is opened again on its workspace, once
\* the flows started from the earlier instance have come to rest
RemoteServerProjectsOpen ==
    /\ last' = ""
    /\ ~panicked
    /\ workspace_alive
    /\ dismissed /\ mode = Dropped
    /\ connecting = None /\ opening = << >> /\ pending = << >>
    /\ ModalShown(default_mode)
    /\ UNCHANGED <<settings, pending, confirmations, workspace_alive, background, panicked>>

\* RemoteServerProjects::project_picker(ix, connection_options, ..): the mode of
\* the new instance; the picker keeps index and options of the server
project_picker(ix, connection_options) ==
    [tag |-> "ProjectPicker", ix |-> ix, connection_options |-> connection_options]

\* create_ssh_project(ix, ssh_connection): nothing without the workspace;
\* otherwise SshConnectionModal takes the modal's place and a detached task on
\* the workspace connects with the options of the listed record
create_ssh_project(ix, ssh_connection) ==
    IF ~workspace_alive
    THEN UNCHANGED vars
    ELSE /\ last' = "open_folder"
         /\ connecting' = Some([ix |-> ix,
                                connection_options |-> ConnectionOptionsOf(ssh_connection),
                                phase |-> "connecting"])
         /\ ModalDismissed
         /\ UNCHANGED <<settings, pending, confirmations, workspace_alive, opening,
                        Editor, panicked>>

\* "Open Folder" of one of the servers the Default mode lists
OpenFolder ==
    /\ Open
    /\ mode.tag = "Default"
    /\ confirmations = << >>
    /\ connecting = None
    /\ \E ix \in Indices(mode.servers) : create_ssh_project(ix, At(mode.servers, ix))

\* connect_over_ssh fails: prompt_err shows "Failed to connect" and waits for the
\* user to close it
ConnectErrored ==
    /\ last' = ""
    /\ ~panicked
    /\ connecting # None
    /\ connecting[1].phase = "connecting"
    /\ connecting' = Some([connecting[1] EXCEPT !.phase = "failed_to_connect"])
    /\ UNCHANGED <<settings, pending, mode, tasks, retained_connections, confirmations,
                   workspace_alive, opening, Editor, panicked, dismissed>>

\* a failed connect after which no modal is shown
ConnectFailed_NoModal ==
    /\ last' = "connect_failed"
    /\ ~panicked
    /\ workspace_alive
    /\ connecting # None
    /\ connecting' = None
    /\ UNCHANGED <<settings, pending, mode, tasks, retained_connections, dismissed,
                   confirmations, workspace_alive, opening, Editor, panicked>>

\* the session is not Some(Some(..)): connecting was cancelled, or the "Failed
\* to connect" prompt was closed; a new modal is toggled in, in Default
ConnectFailed ==
    /\ last' = "connect_failed"
    /\ ~panicked
    /\ workspace_alive
    /\ connecting # None
    /\ connecting' = None
    /\ ModalShown(default_mode)
    /\ UNCHANGED <<settings, pending, confirmations, workspace_alive, opening, Editor,
                   panicked>>

\* the session is there: Project::ssh, and a new modal is toggled in with the
\* project picker for the index and options of the click
ProjectPickerShown ==
    /\ last' = "project_picker"
    /\ ~panicked
    /\ workspace_alive
    /\ connecting # None
    /\ connecting[1].phase = "connecting"
    /\ connecting' = None
    /\ ModalShown(project_picker(connecting[1].ix, connecting[1].connection_options))
    /\ UNCHANGED <<settings, pending, confirmations, workspace_alive, opening, Editor,
                   panicked>>

\* the directories a user selects in the picker: one, or several
Selections == {{"/x"}, {"/x", "/y"}}

\* a task that opens paths in a window
OpenTask(origin, paths) == [origin |-> origin, paths |-> paths, phase |-> "opening"]

\* the opening tasks without the i-th
WithoutOpening(i) == SubSeq(opening, 1, i - 1) \o SubSeq(opening, i + 1, Len(opening))

\* a path task that dismisses the modal first and, its modal gone, ends there
PathTaskSelected_DismissesFirst(ix, paths) ==
    /\ ModalDismissed
    /\ UNCHANGED <<pending, opening>>

\* _path_task of ProjectPicker::new on Ok(Some(paths)): a window is opened, the
\* insert of SshProject { paths } at index ix is handed to the settings store,
\* the worktrees of the paths are opened by a detached task, and then
\* DismissEvent is emitted
PathTaskSelected(ix, paths) ==
    /\ pending' = Append(pending, [op |-> "add_project", ix |-> ix, paths |-> paths])
    /\ opening' = Append(opening, OpenTask("picker", paths))
    /\ ModalDismissed

\* a selection is made in the project picker
PickerSelected(paths) ==
    /\ last' = "project_selected"
    /\ Open
    /\ mode.tag = "ProjectPicker"
    /\ workspace_alive
    /\ Len(pending) < MaxQueued
    /\ Len(opening) < MaxOpening
    /\ PathTaskSelected(mode.ix, paths)
    /\ UNCHANGED <<settings, confirmations, workspace_alive, connecting, Editor, panicked>>

\* _path_task on anything else: the picker was closed without a selection; a
\* new modal is toggled in, in Default
PickerCancelled ==
    /\ last' = "picker_cancelled"
    /\ Open
    /\ mode.tag = "ProjectPicker"
    /\ workspace_alive
    /\ ModalShown(default_mode)
    /\ UNCHANGED <<settings, pending, confirmations, workspace_alive, background, panicked>>

\* the callback of render_ssh_project: a saved project is clicked; DismissEvent,
\* and a detached task runs open_ssh_project with the record's options and paths
OpenSavedProject(server_ix, project) ==
    /\ last' = "saved_project_clicked"
    /\ workspace_alive
    /\ Len(opening) < MaxOpening
    /\ opening' = Append(opening, OpenTask("saved", project.paths))
    /\ ModalDismissed
    /\ UNCHANGED <<settings, pending, confirmations, workspace_alive, connecting, Editor,
                   panicked>>

\* a click on one of the projects the Default mode lists
SavedProjectClicked ==
    /\ Open
    /\ mode.tag = "Default"
    /\ \E server_ix \in Indices(mode.servers) :
          \E project \in At(mode.servers, server_ix).projects :
              OpenSavedProject(server_ix, project)

\* delete_ssh_project(server, project), the "Delete Remote Project" button
delete_ssh_project(server, project) ==
    /\ last' = "project_deleted"
    /\ Len(pending) < MaxQueued
    /\ pending' = update_settings_file(
                      [op |-> "remove_project", server |-> server, project |-> project])
    /\ UNCHANGED <<settings, mode, tasks, retained_connections, confirmations,
                   workspace_alive, background, panicked, dismissed>>

\* "Delete Remote Project" of one of the projects the Default mode lists
DeleteProjectClicked ==
    /\ Open
    /\ mode.tag = "Default"
    /\ \E server \in Indices(mode.servers) :
          \E project \in At(mode.servers, server).projects :
              delete_ssh_project(server, project)

\* the paths are open in the window: the task ends
OpenSucceeded(i) ==
    /\ last' = ""
    /\ ~panicked
    /\ i \in 1..Len(opening)
    /\ opening[i].phase = "opening"
    /\ opening' = WithoutOpening(i)
    /\ UNCHANGED <<settings, pending, mode, tasks, retained_connections, confirmations,
                   workspace_alive, connecting, Editor, panicked, dismissed>>

\* a failed opening that asks the settings store to take the project out again
OpenFailed_RollsBack(i) ==
    /\ last' = "open_failed"
    /\ ~panicked
    /\ i \in 1..Len(opening)
    /\ opening[i].phase = "opening"
    /\ opening' = [opening EXCEPT ![i].phase = "failed"]
    /\ pending' = Append(pending, [op |-> "remove_project", server |-> 0,
                                   project |-> SshProject(opening[i].paths)])
    /\ UNCHANGED <<settings, mode, tasks, retained_connections, confirmations,
                   workspace_alive, connecting, Editor, panicked, dismissed>>

\* opening fails: the task shows a prompt, "Failed to open path" for a picked
\* project (detach_and_prompt_err) and "Failed to connect" for a saved one
OpenFailed(i) ==
    /\ last' = "open_failed"
    /\ ~panicked
    /\ i \in 1..Len(opening)
    /\ opening[i].phase = "opening"
    /\ opening' = [opening EXCEPT ![i].phase = "failed"]
    /\ UNCHANGED <<settings, pending, mode, tasks, retained_connections, confirmations,
                   workspace_alive, connecting, Editor, panicked, dismissed>>

\* the prompt of a failed opening is closed: the task ends
OpenErrorClosed(i) ==
    /\ last' = "open_error_closed"
    /\ ~panicked
    /\ i \in 1..Len(opening)
    /\ opening[i].phase = "failed"
    /\ opening' = WithoutOpening(i)
    /\ UNCHANGED <<settings, pending, mode, tasks, retained_connections, confirmations,
                   workspace_alive, connecting, Editor, panicked, dismissed>>

----------------------------------------------------------------------------

(* The environment: the settings store, the settings file, the workspace *)

\* the settings store applies the oldest queued request
ApplyUpdate ==
    /\ last' = ""
    /\ ~panicked
    /\ pending # << >>
    /\ LET result == ApplyRequest(settings, Head(pending))
       IN /\ settings' = result.setting
          /\ panicked' = result.panic
    /\ pending' = Tail(pending)
    /\ UNCHANGED <<mode, tasks, retained_connections, confirmations, workspace_alive, background,
                   dismissed>>

\* the user edits the settings file: a server is deleted
ExternalRemove(i) ==
    /\ last' = ""
    /\ settings' = Some(VecRemove(settings[1], i))
    /\ UNCHANGED <<pending, mode, tasks, retained_connections, confirmations,
                   workspace_alive, background, panicked, dismissed>>

\* the user edits the settings file: the server list is deleted
ExternalUnset ==
    /\ last' = ""
    /\ settings' = None
    /\ UNCHANGED <<pending, mode, tasks, retained_connections, confirmations,
                   workspace_alive, background, panicked, dismissed>>

\* an edit of the settings file while the modal is on screen
ExternalEdit ==
    /\ Open
    /\ settings # None
    /\ \/ \E i \in Indices(settings[1]) : ExternalRemove(i)
       \/ ExternalUnset

\* the workspace is released (its window's root is replaced) while a pending
\* confirmation task still holds the modal, which leaves the screen; a modal
\* held by nothing else goes with its workspace, which ends its run
WorkspaceReleased ==
    /\ last' = ""
    /\ ~panicked
    /\ workspace_alive
    /\ confirmations # << >>
    /\ workspace_alive' = FALSE
    /\ dismissed' = TRUE
    /\ UNCHANGED <<settings, pending, mode, tasks, retained_connections, confirmations,
                   background, panicked>>

----------------------------------------------------------------------------
(* The editor and its mouse context menu: crates/editor/src/mouse_context_menu.rs *)

\* the display points of the buffer
Points == 0..MaxPoint

\* a selection start..end of the editor; a cursor is an empty selection
Selection(start, end) == [start |-> start, end |-> end]
Cursor(point) == Selection(point, point)

\* Range::contains: start <= point < end
Contains(range, point) == range.start <= point /\ point < range.end

\* display_ranges: the disjoint selections chained with the pending one
display_ranges(selections) ==
    selections.disjoint \cup
        (IF selections.pending = None THEN {} ELSE {selections.pending[1]})

\* the editor before it is laid out: a cursor at the start, no menu
EditorNew ==
    [mode |-> "Full",
     project |-> TRUE,
     custom_context_menu |-> None,
     selections |-> [disjoint |-> {Cursor(0)}, pending |-> None],
     last_bounds |-> None,
     scroll_top |-> 0,
     focus |-> "elsewhere",
     mouse_context_menu |-> None]

\* Editor::to_pixel_point: the pixel position of a point that is on screen
to_pixel_point(ed, source) ==
    IF source >= ed.scroll_top THEN Some(source - ed.scroll_top) ELSE None

\* Editor::character_size, and the width of the gutter
character_size == 1
gutter_width == 1

\* MouseContextMenu::new: the menu takes the focus
MouseContextMenuNew(position, context_menu) ==
    [position |-> position, context_menu |-> context_menu]

\* MouseContextMenu::pinned_to_editor: none for an editor without bounds and for
\* a source that is not on screen
pinned_to_editor(ed, source, position, context_menu) ==
    IF ed.last_bounds = None \/ to_pixel_point(ed, source) = None
    THEN None
    ELSE LET content_origin == ed.last_bounds[1] + gutter_width
             source_position == to_pixel_point(ed, source)[1]
         IN Some(MouseContextMenuNew(
                     [source |-> source,
                      offset |-> position - (source_position + content_origin)],
                     context_menu))

\* the end of deploy_context_menu: the menu is stored, pinned to the editor
SetMouseContextMenu(ed, position, point, context_menu) ==
    LET menu == IF position # None
                THEN pinned_to_editor(ed, point, position[1], context_menu)
                ELSE Some(MouseContextMenuNew(
                              [source |-> point, offset |-> character_size],
                              context_menu))
    IN [ed EXCEPT !.mouse_context_menu = menu,
                  !.focus = IF menu # None THEN "menu" ELSE @]

\* a deploy_context_menu that builds the menu without moving the cursor
MoveCursor_Never(ed, point) == ed

\* the cursor is moved to the clicked point unless a selection contains it
MoveCursor(ed, point) ==
    IF ~\E range \in display_ranges(ed.selections) : Contains(range, point)
    THEN [ed EXCEPT !.selections = [disjoint |-> {}, pending |-> Some(Cursor(point))]]
    ELSE ed

\* the menu of the editor's own actions; "Format Selections" when text is selected
EditorContextMenu(ed) ==
    [items |-> "editor",
     format_selections |->
        \E selection \in display_ranges(ed.selections) : selection.start # selection.end]

\* deploy_context_menu(editor, position, point)
deploy_context_menu(ed, position, point) ==
    LET focused == [ed EXCEPT !.focus = "editor"]
    IN IF focused.mode # "Full" THEN focused
       ELSE IF focused.custom_context_menu # None
            THEN IF focused.custom_context_menu[1] = "nothing" THEN focused
                 ELSE SetMouseContextMenu(focused, position, point,
                                          [items |-> "custom", format_selections |-> FALSE])
            ELSE IF ~focused.project THEN focused
                 ELSE LET moved == MoveCursor(focused, point)
                      IN SetMouseContextMenu(moved, position, point,
                                             EditorContextMenu(moved))

\* the rest of the state, which the editor's actions leave alone
modal == <<settings, pending, mode, tasks, retained_connections, confirmations,
           workspace_alive, connecting, opening, panicked, dismissed>>

\* the screen positions of a click; none when the menu is opened from the keyboard
Positions == {None, Some(0), Some(2)}

\* a right click (or the menu key) at a point
DeployContextMenu(position, point) ==
    /\ last' = "deploy_context_menu"
    /\ Editor' = deploy_context_menu(Editor, position, point)
    /\ UNCHANGED modal

\* the subscription of MouseContextMenu::new: on DismissEvent the menu is taken
\* out and the focus goes back to the editor
ContextMenuDismissed ==
    /\ last' = ""
    /\ Editor.mouse_context_menu # None
    /\ Editor' = [Editor EXCEPT !.mouse_context_menu = None,
                                !.focus = IF @ = "menu" THEN "editor" ELSE @]
    /\ UNCHANGED modal

\* the user selects text, or places the cursor
Select(start, end) ==
    /\ last' = ""
    /\ start <= end
    /\ Editor' = [Editor EXCEPT
                     !.selections = [disjoint |-> {Selection(start, end)}, pending |-> None]]
    /\ Editor' # Editor
    /\ UNCHANGED modal

\* the editor is laid out: last_bounds is set
Layout ==
    /\ last' = ""
    /\ Editor.last_bounds = None
    /\ Editor' = [Editor EXCEPT !.last_bounds = Some(0)]
    /\ UNCHANGED modal

\* the editor is scrolled
Scroll(top) ==
    /\ last' = ""
    /\ Editor.scroll_top # top
    /\ Editor' = [Editor EXCEPT !.scroll_top = top]
    /\ UNCHANGED modal

\* the editors a context menu may be deployed on
Editors ==
    {[EditorNew EXCEPT !.mode = m, !.project = p, !.custom_context_menu = c] :
        m \in {"Full", "SingleLine"}, p \in BOOLEAN,
        c \in {None, Some("menu"), Some("nothing")}}

----------------------------------------------------------------------------

(* The specification *)

ServerA == SshConnection([host |-> "a", username |-> None, port |-> None, args |-> None])

\* the registries a modal may be opened on
InitialSettings == {None, Some(<< >>), Some(<<ServerA>>)}

\* RemoteServerProjects::new
Init ==
    /\ settings \in InitialSettings
    /\ pending = << >>
    /\ mode = default_mode
    /\ tasks = {}
    /\ retained_connections = << >>
    /\ confirmations = << >>
    /\ workspace_alive = TRUE
    /\ connecting = None
    /\ opening = << >>
    /\ Editor = EditorNew
    /\ panicked = FALSE
    /\ dismissed = FALSE
    /\ last = ""

Next ==
    \/ \E text \in Inputs : TypeAddress(text)
    \/ \E text \in Nicknames : TypeNickname(text)
    \/ StartCreate
    \/ ViewServerOptions
    \/ confirm
    \/ cancel
    \/ \E t \in tasks : AttemptAsksPrompt(t)
    \/ \E t \in tasks : CreateSshServerConnected(t)
    \/ \E t \in tasks : AttemptCancelled(t)
    \/ \E t \in tasks : AttemptErrored(t)
    \/ \E t \in tasks : ErrorPromptClosed(t)
    \/ EditNickname
    \/ GoBack
    \/ remove_ssh_server
    \/ \E c \in 1..MaxConfirmations : ConfirmationAccepted(c)
    \/ \E c \in 1..MaxConfirmations : ConfirmationDeclined(c)
    \/ render
    \/ mouse_down_out
    \/ ApplyUpdate
    \/ ExternalEdit
    \/ WorkspaceReleased

Spec == Init /\ [][Next]_vars

----------------------------------------------------------------------------
(* The modal with a remote session client that answers: the future the creating
   task awaits, connect_over_ssh(..).prompt_err(..), resolves in the end *)

\* the connection of a live attempt succeeds, is cancelled or fails
AttemptResolves ==
    \E t \in tasks :
        CreateSshServerConnected(t) \/ AttemptCancelled(t) \/ AttemptErrored(t)

\* the "Failed to connect" prompt of a failed connection is closed
FailurePromptCloses == \E t \in tasks : ErrorPromptClosed(t)

LiveSpec ==
    /\ Init
    /\ [][Next]_vars
    /\ WF_vars(AttemptResolves)
    /\ WF_vars(FailurePromptCloses)

----------------------------------------------------------------------------

(* The registry on its own: the transforms of the settings file, applied to
   every registry in the order a user may cause them *)

\* connection options a server may be added with
RegistryOptions ==
    { [host |-> "a", username |-> None, port |-> None, args |-> None],
      parse_command_line(<<"ssh", "u@b", "-p", "22", "-X">>).options[1] }

\* the settings store applies a transform
RegistryApply(result, label) ==
    /\ ~panicked
    /\ settings' = result.setting
    /\ panicked' = result.panic
    /\ last' = label
    /\ UNCHANGED <<pending, mode, tasks, retained_connections, confirmations,
                   workspace_alive, background, dismissed>>

RegistryAddServer(connection_options) ==
    /\ Len(ssh_connections(settings)) < MaxServers
    /\ RegistryApply(add_ssh_server_update(settings, connection_options), "add_server")

RegistryRemoveServer(server) ==
    RegistryApply(delete_ssh_server_update(settings, server), "remove_server")

RegistryAddProject(ix, paths) ==
    RegistryApply(add_project_update(settings, ix, paths), "add_project")

RegistryRemoveProject(server, project) ==
    RegistryApply(delete_ssh_project_update(settings, server, project), "remove_project")

RegistrySetNickname(index, text) ==
    RegistryApply(set_nickname_update(settings, index,
                                      IF text # "" THEN Some(text) ELSE None),
                  "set_nickname")

RegistryNext ==
    \/ \E connection_options \in RegistryOptions : RegistryAddServer(connection_options)
    \/ \E server \in 0..MaxServers : RegistryRemoveServer(server)
    \/ \E ix \in 0..MaxServers, paths \in SUBSET Paths : RegistryAddProject(ix, paths)
    \/ \E server \in 0..MaxServers, project \in Projects :
          RegistryRemoveProject(server, project)

RegistrySpec == Init /\ [][RegistryNext]_vars

----------------------------------------------------------------------------
(* The five transforms of the registry with every index, in or out of range,
   on registries with and without a server list *)

\* the selections whose records are inserted and removed
TransformProjects == {SshProject(paths) : paths \in Selections}

TransformNext ==
    \/ \E connection_options \in RegistryOptions : RegistryAddServer(connection_options)
    \/ \E server \in 0..MaxServers : RegistryRemoveServer(server)
    \/ \E index \in 0..MaxServers, text \in Nicknames : RegistrySetNickname(index, text)
    \/ \E ix \in 0..MaxServers, paths \in Selections : RegistryAddProject(ix, paths)
    \/ \E server \in 0..MaxServers, project \in TransformProjects :
          RegistryRemoveProject(server, project)

TransformSpec == Init /\ [][TransformNext]_vars

----------------------------------------------------------------------------
(* The project flows on their own: open folder, picker, hand-off, saved projects *)

ServerB ==
    SshConnection(parse_command_line(<<"ssh", "u@b", "-p", "22", "-X">>).options[1])

\* the registries the project flows start on
ProjectSettings ==
    {Some(<<[ServerA EXCEPT !.projects = {SshProject({"/y"})}]>>),
     Some(<<ServerA, ServerB>>)}

ProjectInit ==
    /\ settings \in ProjectSettings
    /\ pending = << >>
    /\ mode = default_mode
    /\ tasks = {}
    /\ retained_connections = << >>
    /\ confirmations = << >>
    /\ workspace_alive = TRUE
    /\ connecting = None
    /\ opening = << >>
    /\ Editor = EditorNew
    /\ panicked = FALSE
    /\ dismissed = FALSE
    /\ last = ""

\* the settings file is edited while a flow is under way, between the click
\* on "Open Folder" and the selection: a server is deleted
ProjectExternalEdit ==
    /\ ~panicked
    /\ connecting # None \/ mode.tag = "ProjectPicker"
    /\ \E i \in Indices(ssh_connections(settings)) : ExternalRemove(i)

ProjectNext ==
    \/ OpenFolder
    \/ ConnectErrored
    \/ ConnectFailed
    \/ ProjectPickerShown
    \/ \E paths \in Selections : PickerSelected(paths)
    \/ PickerCancelled
    \/ SavedProjectClicked
    \/ DeleteProjectClicked
    \/ \E i \in 1..MaxOpening : OpenSucceeded(i)
    \/ \E i \in 1..MaxOpening : OpenFailed(i)
    \/ \E i \in 1..MaxOpening : OpenErrorClosed(i)
    \/ RemoteServerProjectsOpen
    \/ ViewServerOptions
    \/ GoBack
    \/ confirm
    \/ cancel
    \/ mouse_down_out
    \/ render
    \/ ApplyUpdate
    \/ ProjectExternalEdit

ProjectSpec == ProjectInit /\ [][ProjectNext]_vars

----------------------------------------------------------------------------

(* The editor on its own: context menus deployed on every kind of editor *)

EditorInit ==
    /\ settings = None
    /\ pending = << >>
    /\ mode = default_mode
    /\ tasks = {}
    /\ retained_connections = << >>
    /\ confirmations = << >>
    /\ workspace_alive = TRUE
    /\ connecting = None
    /\ opening = << >>
    /\ Editor \in Editors
    /\ panicked = FALSE
    /\ dismissed = FALSE
    /\ last = ""

EditorNext ==
    \/ \E position \in Positions, point \in Points : DeployContextMenu(position, point)
    \/ ContextMenuDismissed
    \/ \E start \in Points, end \in Points : Select(start, end)
    \/ Layout
    \/ \E top \in 0..1 : Scroll(top)

EditorSpec == EditorInit /\ [][EditorNext]_vars

----------------------------------------------------------------------------

(* Properties *)

CreatingServer == mode.tag = "CreateRemoteServer"
AttemptInFlight == CreatingServer /\ (mode.creating # None \/ mode.ssh_prompt # None)
Failed == last \in {"attempt_failed", "attempt_cancelled"}

\* a task is live after the step that had no handle before it
AttemptStarts == \E t \in tasks' : \A u \in tasks : u.id # t.id

\* C1: at most one connection attempt is outstanding at any time, and an attempt
\* starts only from a state in which none is outstanding: confirm while an
\* attempt is in flight never starts a second one
C1_AtMostOneAttempt ==
    /\ [](Cardinality(tasks) <= 1)
    /\ [][AttemptStarts => tasks = {}]_vars

\* C1 witness: an attempt has just been started and is the only one
C1_Witness ==
    /\ last = "attempt_started"
    /\ Cardinality(tasks) = 1
    /\ \E t \in tasks : mode.creating = Some(t.id) /\ mode.ssh_prompt = Some(t.id)

\* C2: in CreateRemoteServer an address error excludes an attempt in flight
C2_ErrorExcludesAttempt ==
    (CreatingServer /\ mode.address_error # None)
        => (mode.creating = None /\ mode.ssh_prompt = None /\ tasks = {})

\* C2 witness: a parse error is shown
C2_Witness ==
    CreatingServer /\ mode.address_error # None /\ last = "parse_error"

\* C3: when a create-server attempt fails (cancelled from the prompt, or failed
\* to connect) the mode is CreateRemoteServer with no attempt, the address text
\* is the text of the editor the attempt was started on, and neither the start
\* of the attempt nor its failure changes the registry, the queued requests or
\* the retained sessions
C3_FailureKeepsInput ==
    [][/\ (last' \in {"attempt_failed", "attempt_cancelled"}) =>
            /\ mode'.tag = "CreateRemoteServer"
            /\ mode'.creating = None /\ mode'.ssh_prompt = None
            /\ tasks' = {}
            /\ mode.tag = "CreateRemoteServer"
            /\ mode'.address_editor.text = mode.address_editor.text
            /\ \A t \in tasks : mode'.address_editor.text = t.address_editor.text
            /\ UNCHANGED <<settings, pending, retained_connections>>
       /\ (last' = "attempt_started") =>
            /\ mode'.address_editor.text = mode.address_editor.text
            /\ UNCHANGED <<settings, pending, retained_connections>>]_vars

\* C3 witness: an attempt on a non-empty input was cancelled from the prompt
C3_Witness ==
    /\ last = "attempt_cancelled"
    /\ CreatingServer /\ mode.creating = None
    /\ get_text(mode.address_editor) # << >>
    /\ get_text(mode.address_editor) # mode.address_editor.text

C5_ReadOnlyIffInFlight ==
    CreatingServer => (mode.address_editor.read_only <=> mode.creating # None)

\* C5 witness: a running attempt was cancelled and the editor takes input again
C5_Witness ==
    /\ last = "cancel_attempt"
    /\ CreatingServer /\ mode.creating = None
    /\ ~mode.address_editor.read_only
    /\ mode.address_editor.text # << >>

\* the request a step has handed to the settings store, none when it handed none
Requested == IF pending' # pending /\ pending' # << >> /\ Len(pending') > Len(pending)
             THEN Some(pending'[Len(pending')]) ELSE None

AddServerRequest(connection_options) == [op |-> "add_server", options |-> connection_options]

\* C6 as claimed: a successful attempt appends the session, requests add_server
\* for the parsed options and makes the mode Default, in one step
C6_SuccessAlwaysAddsServer ==
    [][(last' = "attempt_connected") =>
            \E t \in tasks :
                /\ retained_connections' =
                        Append(retained_connections, t.connection_options.host)
                /\ Requested = Some(AddServerRequest(t.connection_options))
                /\ mode'.tag = "Default"]_vars

\* C6 as far as the code goes: a successful attempt, in one step, appends the session to the
\* pool, requests add_server for the parsed options if the workspace is still
\* there (and requests nothing if it is gone), and makes the mode Default with
\* the listing of the registry; add_server is requested only in a step that
\* appends the session of the same options to the pool
C6_SuccessRetainsThenAdds ==
    [][/\ (last' = "attempt_connected") =>
            \E t \in tasks :
                /\ t.phase = "connecting"
                /\ t.connection_options =
                        parse_command_line(get_text(t.address_editor)).options[1]
                /\ retained_connections' =
                        Append(retained_connections, t.connection_options.host)
                /\ Requested = IF workspace_alive
                               THEN Some(AddServerRequest(t.connection_options))
                               ELSE None
                /\ mode'.tag = "Default"
                /\ mode'.servers = ssh_connections(settings')
                /\ tasks' = {}
       /\ (Requested # None /\ Requested[1].op = "add_server") =>
            retained_connections' =
                Append(retained_connections, Requested[1].options.host)]_vars

\* C6 witness: an attempt succeeded, its session is retained and its server queued
C6_Witness ==
    /\ last = "attempt_connected"
    /\ mode.tag = "Default"
    /\ Len(retained_connections) = 1
    /\ pending # << >>
    /\ pending[Len(pending)].op = "add_server"
    /\ pending[Len(pending)].options.host = retained_connections[1]

\* C7: confirming CreateRemoteServer with a non-empty input that does not parse
\* gives CreateRemoteServer with the error set, the same text and no attempt, and
\* leaves registry, queued requests and session pool alone; an attempt starts
\* only on an input that parses, with exactly the parsed options
C7_ParseErrorChangesNothing ==
    [][/\ (last' = "parse_error") =>
            /\ mode.tag = "CreateRemoteServer"
            /\ get_text(mode.address_editor) # << >>
            /\ ~parse_command_line(get_text(mode.address_editor)).ok
            /\ mode'.tag = "CreateRemoteServer"
            /\ mode'.address_error # None
            /\ mode'.address_editor = mode.address_editor
            /\ mode'.creating = None /\ mode'.ssh_prompt = None
            /\ tasks' = {}
            /\ UNCHANGED <<settings, pending, retained_connections>>
       /\ AttemptStarts =>
            /\ mode.tag = "CreateRemoteServer"
            /\ parse_command_line(get_text(mode.address_editor)).ok
            /\ \A t \in tasks' :
                  Some(t.connection_options) =
                      parse_command_line(get_text(mode.address_editor)).options]_vars

\* C7 witness: an input that does not parse was confirmed and is still shown
C7_Witness ==
    /\ last = "parse_error"
    /\ CreatingServer
    /\ mode.address_error # None
    /\ get_text(mode.address_editor) # << >>
    /\ ~parse_command_line(get_text(mode.address_editor)).ok

\* C8: a queued remove_server(index) that meets a registry whose server list has
\* length <= index is applied as a no-op, without a panic
C8_RemoveOutOfRangeIsNoOp ==
    (/\ pending # << >>
     /\ Head(pending).op = "remove_server"
     /\ Len(ssh_connections(settings)) <= Head(pending).server)
        => ApplyRequest(settings, Head(pending)) = Unchanged(settings)

\* two records of the same server: host, user, port and arguments agree
SameServer(a, b) ==
    a.host = b.host /\ a.username = b.username /\ a.port = b.port /\ a.args = b.args

\* the index of ViewServerOptions denotes another server in the live registry
\* than the one the view was opened on
StaleView ==
    /\ mode.tag = "ViewServerOptions"
    /\ mode.server_index < Len(ssh_connections(settings))
    /\ ~SameServer(At(ssh_connections(settings), mode.server_index), mode.connection)

\* C9: when the index of ViewServerOptions has come to denote a different server
\* than the one the view was opened on, accepting the removal changes no record
C9_StaleIndexChangesNothing ==
    [][(/\ last' = "removal_accepted"
        /\ StaleView
        /\ \E c \in 1..Len(confirmations) :
              /\ confirmations' = WithoutConfirmation(c)
              /\ confirmations[c].index = mode.server_index
        /\ Requested # None)
            => ApplyRequest(settings, Requested[1]) = Unchanged(settings)]_vars

\* C10: when the server at the index of ViewServerOptions is removed from the
\* registry, the next render makes the mode Default with the live listing
C10_RenderLeavesStaleView ==
    [][(/\ mode.tag = "ViewServerOptions"
        /\ mode' = mode
        /\ ~dismissed' /\ ~panicked'
        /\ settings # None
        /\ mode.server_index < Len(settings[1])
        /\ settings' = Some(VecRemove(settings[1], mode.server_index)))
            => Rendered' = default_mode']_vars

\* C11: after a render of Default the cached listing equals the server sequence
\* of the live registry, whether the registry's server list is present, empty
\* or absent
C11_RenderedListingIsLive ==
    (~dismissed /\ ~panicked /\ mode.tag = "Default")
        => Rendered.servers = ssh_connections(settings)

\* the oldest queued request is applied in this step
Applies(op) ==
    pending # << >> /\ Head(pending).op = op /\ pending' = Tail(pending)

\* C12: confirming EditNickname(i) requests nickname None for an empty text and
\* Some(t) for a non-empty text t, for server i, and the mode becomes Default;
\* the request applied to a registry that has a server i stores exactly that
\* nickname, never the empty string
C12_EmptyNicknameIsNone ==
    [][/\ (last' = "nickname_confirmed") =>
            /\ mode.tag = "EditNickname"
            /\ Requested =
                 Some([op |-> "set_nickname", index |-> mode.index,
                       text |-> IF mode.editor.text = "" THEN None
                                ELSE Some(mode.editor.text)])
            /\ mode'.tag = "Default"
       /\ (Applies("set_nickname") /\ Head(pending).index < Len(ssh_connections(settings)))
            => /\ Head(pending).text # Some("")
               /\ At(settings'[1], Head(pending).index).nickname = Head(pending).text
               /\ Len(settings'[1]) = Len(settings[1])]_vars

\* C12 witness: server 0 has a nickname, its edit was confirmed with an empty
\* text, and the request to store None is queued
C12_Witness ==
    /\ last = "nickname_confirmed"
    /\ mode.tag = "Default"
    /\ settings # None /\ settings[1] # << >>
    /\ At(settings[1], 0).nickname = Some("n")
    /\ pending = <<[op |-> "set_nickname", index |-> 0, text |-> None]>>

\* the projects of the server at an index, none when the index is out of range
ProjectsAt(setting, ix) ==
    IF ix < Len(ssh_connections(setting)) THEN At(setting[1], ix).projects ELSE {}

\* C13: for every registry, server index and project P, adding P twice gives
\* the registry that adding it once gives, and a server without P then has
\* exactly one project with P's paths, its other projects and all other servers
\* as before
C13_AddProjectIdempotent ==
    \A ix \in 0..MaxServers, paths \in SUBSET Paths :
        LET once == add_project_update(settings, ix, paths)
            twice == add_project_update(once.setting, ix, paths)
        IN /\ twice = once
           /\ ~once.panic
           /\ ix < Len(ssh_connections(settings)) =>
                /\ Cardinality({p \in ProjectsAt(once.setting, ix) : p.paths = paths}) = 1
                /\ ProjectsAt(once.setting, ix) \ {SshProject(paths)}
                        = ProjectsAt(settings, ix) \ {SshProject(paths)}
                /\ Len(once.setting[1]) = Len(settings[1])
                /\ \A other \in Indices(settings[1]) \ {ix} :
                        At(once.setting[1], other) = At(settings[1], other)
           /\ ix >= Len(ssh_connections(settings)) => once.setting = settings

\* C13 witness: a project was added to a server that holds another one already
C13_Witness ==
    /\ last = "add_project"
    /\ \E ix \in Indices(ssh_connections(settings)) :
          Cardinality(ProjectsAt(settings, ix)) = 2

\* C14: for every registry, server index and project P, removing P twice gives
\* the registry that removing it once gives; removing a P the server does not
\* hold (or from an index without a server) leaves the registry unchanged, and
\* removing a P it holds takes out P alone
C14_RemoveProjectIdempotent ==
    \A server \in 0..MaxServers, project \in Projects :
        LET once == delete_ssh_project_update(settings, server, project)
            twice == delete_ssh_project_update(once.setting, server, project)
        IN /\ twice = once
           /\ ~once.panic
           /\ project \notin ProjectsAt(settings, server) => once.setting = settings
           /\ project \in ProjectsAt(settings, server) =>
                /\ ProjectsAt(once.setting, server)
                        = ProjectsAt(settings, server) \ {project}
                /\ Len(once.setting[1]) = Len(settings[1])
                /\ \A other \in Indices(settings[1]) \ {server} :
                        At(once.setting[1], other) = At(settings[1], other)

\* C14 witness: the last transform was a removal and a server holds one project
C14_Witness ==
    /\ last = "remove_project"
    /\ \E server \in Indices(ssh_connections(settings)) :
          Cardinality(ProjectsAt(settings, server)) = 1

\* C15: for every registry and all options, add_server appends exactly one
\* record at the end, with host, username, port and args of the options, no
\* projects and no nickname, and leaves the existing records at their indices;
\* adding the same options twice appends two equal records
C15_AddServerAppends ==
    \A connection_options \in RegistryOptions :
        LET before == ssh_connections(settings)
            once == add_ssh_server_update(settings, connection_options)
            twice == add_ssh_server_update(once.setting, connection_options)
            added == once.setting[1][Len(before) + 1]
        IN /\ ~once.panic /\ ~twice.panic
           /\ once.setting # None
           /\ Len(once.setting[1]) = Len(before) + 1
           /\ SubSeq(once.setting[1], 1, Len(before)) = before
           /\ added.host = connection_options.host
           /\ added.username = connection_options.username
           /\ added.port = connection_options.port
           /\ added.args = IF connection_options.args = None THEN << >>
                           ELSE connection_options.args[1]
           /\ added.projects = {}
           /\ added.nickname = None
           /\ Len(twice.setting[1]) = Len(before) + 2
           /\ SubSeq(twice.setting[1], 1, Len(before) + 1) = once.setting[1]
           /\ twice.setting[1][Len(before) + 2] = added

\* C15 witness: a server was added with the options of the server before it
C15_Witness ==
    /\ last = "add_server"
    /\ Len(ssh_connections(settings)) = 2
    /\ SameServer(At(settings[1], 0), At(settings[1], 1))
    /\ At(settings[1], 1).projects = {}
    /\ At(settings[1], 0).projects # {}

\* C16: a running attempt always has its prompt in the mode, and cancel in
\* CreateRemoteServer while an attempt is running gives a fresh CreateRemoteServer
\* (no error, no attempt, no prompt, writable editor) with the text of the
\* previous editor; the modal stays on screen and registry, queued requests and
\* session pool are unchanged
C16_CancelAttemptKeepsText ==
    /\ []((CreatingServer /\ mode.creating # None) => mode.ssh_prompt # None)
    /\ [][(last' = "cancel_attempt") =>
            /\ mode.tag = "CreateRemoteServer"
            /\ mode.creating # None
            /\ mode' = [CreateRemoteServerNew EXCEPT
                           !.address_editor.text = mode.address_editor.text]
            /\ ~mode'.address_editor.read_only
            /\ tasks' = {}
            /\ ~dismissed'
            /\ UNCHANGED <<settings, pending, retained_connections>>]_vars

\* C16 witness: the attempt on the input that parses was cancelled
C16_Witness ==
    /\ last = "cancel_attempt"
    /\ tasks = {}
    /\ mode = [CreateRemoteServerNew EXCEPT
                  !.address_editor.text =
                      <<Whitespace, "ssh", "u@b", "-p", "22", "-X", Whitespace>>]

\* the attempt the mode owns ends in this step
AttemptEnds == last' \in {"attempt_connected", "attempt_failed", "attempt_cancelled"}

\* C17: an abandoned attempt has no later effect: every live attempt is the one
\* the current mode owns, a step that replaces the owning mode value leaves no
\* task of it behind, and an attempt adds a server, retains a session or changes
\* the mode only as the attempt of the mode it ends in
C17_AbandonedAttemptIsDropped ==
    /\ [](\A t \in tasks : CreatingServer /\ mode.creating = Some(t.id))
    /\ [][/\ (CreatingServer /\ mode.creating # None /\ mode' # mode
               /\ (mode'.tag # "CreateRemoteServer" \/ mode'.creating # mode.creating))
             => tasks' = {}
          /\ AttemptEnds
             => (CreatingServer /\ \E t \in tasks : mode.creating = Some(t.id))
          /\ (tasks = {} /\ tasks' = {})
             => /\ retained_connections' \in {retained_connections, << >>}
                /\ (Requested # None => Requested[1].op # "add_server")]_vars

\* C17 witness: a running attempt was abandoned by cancel; nothing is queued or
\* retained
C17_Witness ==
    /\ last = "cancel_attempt"
    /\ CreatingServer /\ mode.creating = None
    /\ tasks = {}
    /\ pending = << >>
    /\ retained_connections = << >>

\* C18: cancel in CreateRemoteServer without an attempt (with or without an
\* error), in ViewServerOptions and in EditNickname makes the mode Default with
\* the listing of the registry; the modal stays on screen, the nickname text is
\* gone with the mode, nothing is requested and the registry is unchanged; these
\* are the only modes besides Default in which cancel is not the cancel of a
\* running attempt
C18_CancelReturnsToDefault ==
    /\ []((CreatingServer /\ mode.ssh_prompt = None) => mode.creating = None)
    /\ [][(last' = "cancel_to_default") =>
            /\ \/ mode.tag \in {"ViewServerOptions", "EditNickname"}
               \/ CreatingServer /\ mode.creating = None /\ mode.ssh_prompt = None
            /\ mode'.tag = "Default"
            /\ mode'.servers = ssh_connections(settings')
            /\ tasks' = {}
            /\ ~dismissed'
            /\ UNCHANGED <<settings, pending, retained_connections, confirmations>>]_vars

\* C18 witness: cancel has led back to the listing of a registry with a server
\* that has no nickname, with nothing queued
C18_Witness ==
    /\ last = "cancel_to_default"
    /\ mode.tag = "Default"
    /\ Len(mode.servers) = 1
    /\ At(mode.servers, 0).nickname = None
    /\ mode.servers = ssh_connections(settings)
    /\ pending = << >>

C21_SessionsOutliveModal ==
    [][/\ Len(retained_connections') >= Len(retained_connections)
       /\ SubSeq(retained_connections', 1, Len(retained_connections))
              = retained_connections]_vars

\* the request to remove the server at an index
RemoveServerRequest(server) == [op |-> "remove_server", server |-> server]

\* a "Remove server?" prompt is answered or closed in this step
PromptCloses == Len(confirmations') < Len(confirmations)

\* the modal is released in this step: off screen, and its last holder has ended
ModalReleased == dismissed /\ mode' = Dropped

\* C25 as claimed: when the prompt is accepted the removal of the server is
\* requested and the mode becomes Default
C25_AcceptedAlwaysRemoves ==
    [][(last' = "removal_accepted") =>
            /\ \E c \in 1..Len(confirmations) :
                  Requested = Some(RemoveServerRequest(confirmations[c].index))
            /\ (mode'.tag = "Default" \/ ModalReleased)]_vars

\* C25 as far as the code goes: a removal is requested only by the step that accepts the
\* prompt; a prompt that is declined or closed changes neither registry nor
\* queued requests and leaves the mode as it is; an accepted prompt requests
\* the removal of the index the prompt was opened for if the workspace is still
\* there (and nothing if it is gone) and makes the mode Default; a modal that is
\* off screen is released when its last prompt ends
C25_RemovalOnlyOnAccept ==
    [][/\ (Requested # None /\ Requested[1].op = "remove_server")
            => last' = "removal_accepted"
       /\ (last' = "removal_accepted") =>
            /\ PromptCloses
            /\ \E c \in 1..Len(confirmations) :
                  /\ confirmations' = WithoutConfirmation(c)
                  /\ Requested = IF workspace_alive
                                 THEN Some(RemoveServerRequest(confirmations[c].index))
                                 ELSE None
            /\ (mode' = default_mode \/ ModalReleased)
            /\ settings' = settings
       /\ (PromptCloses /\ last' # "removal_accepted") =>
            /\ UNCHANGED <<settings, pending>>
            /\ (mode' = mode \/ ModalReleased)]_vars

\* C25 witness: the prompt for server 0 was accepted, the removal is queued and
\* the mode is Default
C25_Witness ==
    /\ last = "removal_accepted"
    /\ pending = <<RemoveServerRequest(0)>>
    /\ mode.tag = "Default"
    /\ confirmations = << >>
    /\ ~dismissed

\* C26: accepting the prompt removes exactly the record the view was showing
\* when the removal was requested, whatever happened to the registry while the
\* prompt was open: the request for an index the live registry still has,
\* applied to that registry, takes out a record of the shown server or, when
\* that server is gone, nothing
C26_AcceptRemovesShownServer ==
    [][(/\ last' = "removal_accepted"
        /\ mode.tag = "ViewServerOptions"
        /\ \E c \in 1..Len(confirmations) :
              /\ confirmations' = WithoutConfirmation(c)
              /\ confirmations[c].index = mode.server_index
        /\ mode.server_index < Len(ssh_connections(settings))
        /\ Requested # None)
            => LET result == ApplyRequest(settings, Requested[1])
               IN /\ ~result.panic
                  /\ \/ result.setting = settings
                     \/ \E i \in Indices(ssh_connections(settings)) :
                           /\ SameServer(At(settings[1], i), mode.connection)
                           /\ result.setting = Some(VecRemove(settings[1], i))]_vars

\* C28: nothing is retried automatically: a connection attempt starts only in a
\* step of the user's confirm, one attempt per confirm and from a state without
\* an attempt, and the step in which an attempt fails or is cancelled leaves no
\* attempt behind
C28_NoAutomaticRetry ==
    [][/\ AttemptStarts =>
            /\ confirm
            /\ last' = "attempt_started"
            /\ tasks = {}
            /\ Cardinality(tasks') = 1
       /\ (last' \in {"attempt_failed", "attempt_cancelled", "cancel_attempt"}) =>
            /\ tasks' = {}
            /\ mode'.tag = "CreateRemoteServer"
            /\ mode'.creating = None /\ mode'.ssh_prompt = None]_vars

\* C28 witness: the attempt on an input that parses has failed; the input is
\* still there, and no attempt runs
C28_Witness ==
    /\ last = "attempt_failed"
    /\ CreatingServer
    /\ parse_command_line(get_text(mode.address_editor)).ok
    /\ tasks = {}
    /\ mode.creating = None

\* the case of C30: a Full editor with a project and no menu, and a point that
\* no selection contains
ClickOutsideSelections(point) ==
    /\ Editor.mode = "Full"
    /\ Editor.project
    /\ Editor.mouse_context_menu = None
    /\ ~\E range \in display_ranges(Editor.selections) : Contains(range, point)

\* the only selection of the editor after the step is a cursor at the point
CursorMovedTo(point) == display_ranges(Editor'.selections) = {Cursor(point)}

\* C30 as claimed: deploy_context_menu on a Full editor that has a project, at a
\* point not inside any selection, moves the cursor to the point and leaves
\* mouse_context_menu set
C30_MenuAlwaysDeployed ==
    [][\A position \in Positions, point \in Points :
          (DeployContextMenu(position, point) /\ ClickOutsideSelections(point))
              => (CursorMovedTo(point) /\ Editor'.mouse_context_menu # None)]_vars

\* C30 amended: deploy_context_menu on a Full editor that has a project and no
\* custom context menu, at a point not inside any selection, moves the cursor to
\* the point; mouse_context_menu is set after it if no screen position is given,
\* or if the editor has been laid out and the point is on screen, and is None
\* otherwise; the menu is pinned to the clicked point
C30_MenuDeployedWhenOnScreen ==
    [][\A position \in Positions, point \in Points :
          (/\ DeployContextMenu(position, point)
           /\ ClickOutsideSelections(point)
           /\ Editor.custom_context_menu = None)
              => /\ CursorMovedTo(point)
                 /\ (Editor'.mouse_context_menu # None) <=>
                        \/ position = None
                        \/ Editor.last_bounds # None /\ point >= Editor.scroll_top
                 /\ (Editor'.mouse_context_menu # None) =>
                        Editor'.mouse_context_menu[1].position.source = point]_vars

\* C30 witness: the cursor was at 0, the menu was deployed from a click at
\* point 2 of the laid out editor: the cursor is at 2 and the menu is set
C30_Witness ==
    /\ last = "deploy_context_menu"
    /\ Editor.mode = "Full" /\ Editor.project /\ Editor.custom_context_menu = None
    /\ Editor.last_bounds # None
    /\ display_ranges(Editor.selections) = {Cursor(2)}
    /\ Editor.mouse_context_menu # None
    /\ Editor.mouse_context_menu[1].position.source = 2
    /\ Editor.focus = "menu"

\* C22: "Open Folder" on a listed server starts a connect with the index and the
\* options of the listed record; when the connect succeeds a modal in
\* ProjectPicker for that index and those options is on screen, when it fails a
\* fresh modal in Default is on screen; no step that starts or ends the connect
\* changes the registry or hands a request to the settings store
C22_OpenFolderConnects ==
    [][/\ (last' = "open_folder") =>
            /\ mode.tag = "Default"
            /\ connecting = None /\ connecting' # None
            /\ connecting'[1].phase = "connecting"
            /\ \E ix \in Indices(mode.servers) :
                  /\ connecting'[1].ix = ix
                  /\ connecting'[1].connection_options
                        = ConnectionOptionsOf(At(mode.servers, ix))
       /\ (last' = "project_picker") =>
            /\ connecting # None /\ connecting' = None
            /\ mode' = project_picker(connecting[1].ix, connecting[1].connection_options)
            /\ ~dismissed'
       /\ (last' = "connect_failed") =>
            /\ connecting # None /\ connecting' = None
            /\ mode' = default_mode
            /\ retained_connections' = << >> /\ tasks' = {}
            /\ ~dismissed'
       /\ (connecting' # connecting) => UNCHANGED <<settings, pending>>
       /\ (connecting' # connecting /\ connecting' = None) =>
            last' \in {"project_picker", "connect_failed"}]_vars

\* C22 witness: the connect to the second server succeeded and its picker is shown
C22_Witness ==
    /\ last = "project_picker"
    /\ mode.tag = "ProjectPicker"
    /\ mode.ix = 1
    /\ mode.connection_options.host = "b"
    /\ ~dismissed
    /\ connecting = None

\* the request to save a project on the server at an index
AddProjectRequest(ix, paths) == [op |-> "add_project", ix |-> ix, paths |-> paths]

C24_OpenFailureReopensModal ==
    (last = "open_error_closed") => (~dismissed /\ mode.tag = "Default")

\* the record is the one of the server the options were taken from
IsServerOf(record, connection_options) ==
    /\ record.host = connection_options.host
    /\ record.username = connection_options.username
    /\ record.port = connection_options.port
    /\ Some(record.args) = connection_options.args

\* C27: the project selected in the picker is saved on the server "Open Folder"
\* was clicked on, whatever happened to the registry since the click: the
\* insert handed over, applied to the live registry, changes no record of
\* another server, and gives the project to the clicked server if it is listed
C27_ProjectSavedOnClickedServer ==
    [][(last' = "project_selected" /\ Requested # None) =>
            LET live == ssh_connections(settings)
                saved == ssh_connections(ApplyRequest(settings, Requested[1]).setting)
            IN /\ \A i \in Indices(live) :
                      At(saved, i) # At(live, i)
                          => IsServerOf(At(live, i), mode.connection_options)
               /\ (\E i \in Indices(live) : IsServerOf(At(live, i), mode.connection_options))
                      => \E i \in Indices(live) :
                            /\ IsServerOf(At(live, i), mode.connection_options)
                            /\ SshProject(Requested[1].paths) \in At(saved, i).projects]_vars

\* the user actions that hand a request to the settings store in the project flows
ProjectRequestSteps == {"project_selected", "project_deleted"}

\* C29: requests reach the settings store in the order of the user actions that
\* caused them and are applied in that order: a step hands over at most one
\* request, in the step of the user action itself and behind the requests
\* already queued, and the store applies the oldest request first; no step
\* reorders, drops or duplicates a queued request
C29_RequestsInConfirmOrder ==
    [][\/ pending' = pending
       \/ /\ pending # << >>
          /\ pending' = Tail(pending)
          /\ settings' = ApplyRequest(settings, Head(pending)).setting
       \/ /\ Len(pending') = Len(pending) + 1
          /\ SubSeq(pending', 1, Len(pending)) = pending
          /\ last' \in ProjectRequestSteps
          /\ settings' = settings]_vars

\* C29 witness: a project was deleted and then another one selected: the removal
\* is queued before the insert
C29_Witness ==
    /\ last = "project_selected"
    /\ Len(pending) = 2
    /\ pending[1].op = "remove_project"
    /\ pending[2].op = "add_project"

----------------------------------------------------------------------------
\* C31: a new modal starts in Default with no retained session, and "start
\* create" from Default gives a CreateRemoteServer with an empty writable
\* input, no error, no prompt and no attempt; no task starts, and neither the
\* registry nor the queued requests change
C31_StartCreateFromDefault ==
    /\ mode.tag = "Default"
    /\ retained_connections = << >>
    /\ tasks = {}
    /\ [][(mode.tag = "Default" /\ mode'.tag = "CreateRemoteServer") =>
            /\ mode'.address_editor = [text |-> << >>, read_only |-> FALSE]
            /\ mode'.address_error = None
            /\ mode'.ssh_prompt = None
            /\ mode'.creating = None
            /\ tasks' = tasks
            /\ settings' = settings
            /\ pending' = pending
            /\ retained_connections' = retained_connections]_vars

\* "start create" was taken on a registry with a server
C31_Witness ==
    /\ mode = CreateRemoteServerNew
    /\ last = ""
    /\ ssh_connections(settings) # << >>
    /\ tasks = {}

----------------------------------------------------------------------------
\* C32: confirming EditNickname(i) changes nothing but the nickname of the
\* server at index i: the confirm itself leaves the registry and the session
\* pool alone, and its request, when applied, keeps the number of servers,
\* every other server record, and host, port, username, args, projects and
\* upload policy of server i
C32_NicknameEditFrame ==
    [][/\ (mode.tag = "EditNickname" /\ confirm) =>
            /\ settings' = settings
            /\ retained_connections' = retained_connections
       /\ Applies("set_nickname") =>
            LET i == Head(pending).index
                before == ssh_connections(settings)
                after == ssh_connections(settings')
            IN /\ (settings' = None) = (settings = None)
               /\ Len(after) = Len(before)
               /\ \A j \in Indices(before) :
                     IF j = i
                     THEN [At(after, j) EXCEPT !.nickname = None] =
                          [At(before, j) EXCEPT !.nickname = None]
                     ELSE At(after, j) = At(before, j)]_vars

\* C32 witness: of two configured servers one got a nickname and the other
\* has none
C32_Witness ==
    /\ Len(ssh_connections(settings)) = 2
    /\ \E i, j \in Indices(ssh_connections(settings)) :
          /\ At(settings[1], i).nickname = Some("n")
          /\ At(settings[1], j).nickname = None
    /\ pending = << >>

----------------------------------------------------------------------------
\* the index is not one of the servers of the registry
OutOfRange(index) == index >= Len(ssh_connections(settings))

\* C33: set_nickname, add_project and remove_project applied with a server
\* index that is out of range of the live registry change nothing of the
\* registry and raise no fault
C33_OutOfRangeIsNoOp ==
    [][\A index \in 0..MaxServers :
          OutOfRange(index) =>
            /\ \A text \in Nicknames :
                  RegistrySetNickname(index, text) => (settings' = settings /\ ~panicked')
            /\ \A paths \in Selections :
                  RegistryAddProject(index, paths) => (settings' = settings /\ ~panicked')
            /\ \A project \in TransformProjects :
                  RegistryRemoveProject(index, project)
                      => (settings' = settings /\ ~panicked')]_vars

\* C33 witness: a transform of a project was applied to a registry whose server
\* list is empty, where every index is out of range
C33_Witness ==
    /\ settings = Some(<< >>)
    /\ last \in {"add_project", "remove_project"}
    /\ ~panicked

\* C34: on a registry without a server list add_server creates the list with
\* exactly the new record, and remove_server, set_nickname, add_project and
\* remove_project leave the registry without a list
C34_UnsetRegistry ==
    [][settings = None =>
          /\ \A connection_options \in RegistryOptions :
                RegistryAddServer(connection_options)
                    => settings' = Some(<<SshConnection(connection_options)>>)
          /\ \A index \in 0..MaxServers :
                /\ RegistryRemoveServer(index) => settings' = None
                /\ \A text \in Nicknames :
                      RegistrySetNickname(index, text) => settings' = None
                /\ \A paths \in Selections :
                      RegistryAddProject(index, paths) => settings' = None
                /\ \A project \in TransformProjects :
                      RegistryRemoveProject(index, project) => settings' = None
          /\ ~panicked']_vars

\* C34 witness: a removal of a server was applied to a registry without a list
C34_Witness ==
    /\ settings = None
    /\ last = "remove_server"
    /\ ~panicked

----------------------------------------------------------------------------
\* C35: confirming CreateRemoteServer without a prompt when the trimmed input
\* is empty changes nothing: the mode value with its error, the registry, the
\* queued requests and the session pool stay, and no attempt starts
C35_EmptyConfirmIsNoOp ==
    [][(/\ mode.tag = "CreateRemoteServer"
        /\ mode.ssh_prompt = None
        /\ get_text(mode.address_editor) = << >>
        /\ confirm)
          => /\ mode' = mode
             /\ tasks' = tasks
             /\ settings' = settings
             /\ pending' = pending
             /\ retained_connections' = retained_connections]_vars

\* C35 witness: an input of whitespace only was confirmed while the error of
\* an earlier confirm was shown, and the error is still there
C35_Witness ==
    /\ last = "confirm_empty"
    /\ mode.tag = "CreateRemoteServer"
    /\ mode.address_editor.text = <<Whitespace>>
    /\ mode.address_error # None

----------------------------------------------------------------------------
\* C36: the modal's confirm in Default, ViewServerOptions and ProjectPicker
\* changes nothing: mode, registry, queued requests and session pool stay, no
\* attempt starts, and the modal stays on screen
C36_ConfirmIgnored ==
    [][(mode.tag \in {"Default", "ViewServerOptions", "ProjectPicker"} /\ confirm)
          => /\ mode' = mode
             /\ tasks' = tasks
             /\ settings' = settings
             /\ pending' = pending
             /\ retained_connections' = retained_connections
             /\ dismissed' = dismissed
             /\ background' = background]_vars

\* C36 witness: confirm was pressed while the project picker was shown, and
\* the picker is still shown
C36_Witness ==
    /\ last = "confirm_ignored"
    /\ mode.tag = "ProjectPicker"
    /\ ~dismissed

----------------------------------------------------------------------------
\* C37: a "Remove server?" prompt answered after the modal, still on screen,
\* has left ViewServerOptions changes neither the mode nor the live connection
\* attempt
C37_LateAnswerLeavesMode ==
    [][(PromptCloses /\ ~dismissed /\ mode.tag # "ViewServerOptions")
          => (mode' = mode /\ tasks' = tasks)]_vars

----------------------------------------------------------------------------
\* C38: every session of the pool has its add_server request: a step that
\* retains a session hands over, in the same step, the request to add the
\* server of that session, whether or not the workspace is still available
C38_RetainedSessionHasServer ==
    [][(Len(retained_connections') > Len(retained_connections)) =>
            /\ Requested # None
            /\ Requested[1].op = "add_server"
            /\ Requested[1].options.host = retained_connections'[Len(retained_connections')]]_vars

----------------------------------------------------------------------------
\* C39: in the hand-off the insert of the chosen project is handed to the
\* settings store in the step that starts the opening of its paths, before the
\* result of the opening is known; a failed opening and the closing of its
\* error change neither the registry nor the queued requests, and a removal of
\* a project is requested by nothing but the user's delete
C39_SavedBeforeOpenResult ==
    [][/\ (/\ Len(opening') = Len(opening) + 1
           /\ opening'[Len(opening')].origin = "picker") =>
            /\ opening'[Len(opening')].phase = "opening"
            /\ Requested =
                 Some(AddProjectRequest(mode.ix, opening'[Len(opening')].paths))
       /\ (last' \in {"open_failed", "open_error_closed"}) =>
            /\ settings' = settings
            /\ pending' = pending
       /\ (Requested # None /\ Requested[1].op = "remove_project") =>
            last' = "project_deleted"]_vars

\* C39 witness: the opening of a picked project has failed, and the project is
\* recorded on a server
C39_Witness ==
    /\ last = "open_failed"
    /\ Len(opening) = 1
    /\ opening[1].origin = "picker"
    /\ opening[1].phase = "failed"
    /\ pending = << >>
    /\ \E i \in Indices(ssh_connections(settings)) :
          SshProject(opening[1].paths) \in ProjectsAt(settings, i)

----------------------------------------------------------------------------
\* the workflow has ended: the modal was released, or the process panicked
WorkflowEnded == mode = Dropped \/ panicked

\* the attempt is over and the form can be used again
Settled ==
    \/ mode.tag = "Default"
    \/ /\ CreatingServer
       /\ ~AttemptInFlight
       /\ ~mode.address_editor.read_only

====
